---- MODULE Spec2Model ----
(***************************************************************************)
(* Model of src/main.py: the streaming chat endpoint.                      *)
(*                                                                         *)
(* State: the process-wide session store (store, line 33), the chat       *)
(* histories it refers to (heap: one cell per ChatMessageHistory object,   *)
(* so that object identity is visible), the module-level model (None when  *)
(* no OPENAI_API_KEY is set, lines 26-30) and, for every GET               *)
(* /chat_stream request, the position and locals of its stream_generator.  *)
(*                                                                         *)
(* Texts are sequences of one-character strings.                           *)
(*                                                                         *)
(* Spec is the stream endpoint: requests, fragments, failures and client   *)
(* disconnects.  PageSpec is the page side: GET / and POST /chat of        *)
(* browsers that hold a session_id cookie or none.                         *)
(*                                                                         *)
(* runnable_with_history (lines 48-53) is langchain's                      *)
(* RunnableWithMessageHistory.  What the model takes from it: when the     *)
(* stream is first pulled it calls get_session_history(session_id) and     *)
(* keeps the returned object for the run; when the run ends WITHOUT error  *)
(* it calls add_messages(input messages + output messages) on that object  *)
(* in one synchronous call; when the run raises it adds nothing.  The      *)
(* provider stream is taken to yield at least one fragment.                *)
(***************************************************************************)
EXTENDS Integers, Sequences, FiniteSets, TLC

\* ---------------------------------------------------------------- bounds
MaxRounds == 2     \* number of GET /chat_stream requests in a run
MaxFrags  == 2     \* fragments the provider yields in one round, at most

Rounds     == 1..MaxRounds
SessionIds == {"s1", "s2"}                 \* values of the path parameter
Messages   == {<<>>, <<"q">>}            \* values of ?message=
\* the query string: with or without a message parameter
Queries    == {[present |-> FALSE, value |-> <<>>]} \cup
              {[present |-> TRUE, value |-> m] : m \in Messages}
Fragments  == {<<"a">>, <<"<", "\n", ">">>} \* texts of a provider fragment
ErrTexts   == {<<"<", "e", "\n">>}          \* str(e) of a provider exception

Clients    == {"c1", "c2"}                 \* browsers
Tokens     == {"t1", "t2"}                 \* values of secrets.token_hex(16)
DefaultSession == "default"                \* chat's fallback session id

\* a session_id cookie of a request or of a Set-Cookie header
NoCookie == [present |-> FALSE, value |-> ""]
Cookie(v) == [present |-> TRUE, value |-> v]

\* what a browser may hold for session_id before its first request: nothing,
\* an empty value, or a token it was given in an earlier run
InitialJars == {NoCookie, Cookie(""), Cookie("t1")}

\* the texts the provider can yield after the fragments fs: the inputs are
\* the replies in which no text comes twice in a row
NextFragments(fs) ==
    IF fs = <<>> THEN Fragments ELSE Fragments \ {fs[Len(fs)]}

\* ------------------------------------------------------- pure functions
\* "".join(fs) for a sequence of texts
RECURSIVE Concat(_)
Concat(fs) == IF fs = <<>> THEN <<>> ELSE Head(fs) \o Concat(Tail(fs))

EscapeChar(c) ==
    IF c = "<" THEN <<"&", "l", "t", ";">>
    ELSE IF c = ">" THEN <<"&", "g", "t", ";">>
    ELSE <<c>>

\* chunk.replace("<", "&lt;").replace(">", "&gt;")
RECURSIVE Escape(_)
Escape(t) == IF t = <<>> THEN <<>> ELSE EscapeChar(Head(t)) \o Escape(Tail(t))

\* markdown.markdown(text, ...): an external pure function; a paragraph
\* around the text, the text itself passed through unescaped
Render(t) == <<"<", "p", ">">> \o t \o <<"<", "/", "p", ">">>

\* the payload "<div id='error'>Error</div>"
ErrorDiv ==
    <<"<", "d", "i", "v", " ", "i", "d", "=", "'", "e", "r", "r", "o", "r",
      "'", ">", "E", "r", "r", "o", "r", "<", "/", "d", "i", "v", ">">>

\* the prefix "Error: "
ErrorPrefix == <<"E", "r", "r", "o", "r", ":", " ">>

\* one SSE event "event: <name>\ndata: <data>\n\n"
Event(name, data) == [name |-> name, data |-> data]

\* the text on the wire of one event: f"event: {name}\ndata: {data}\n\n"
Wire(e) == <<"event: ", e.name, "\n", "data: ">> \o e.data \o <<"\n", "\n">>

\* request.query_params.get("message", "")
QueryGet(q) == IF q.present THEN q.value ELSE <<>>

\* the test "not session_id" on request.cookies.get("session_id")
NoSessionAlways(c) == TRUE
NoSession(c) == ~c.present \/ c.value = ""

\* the test "not model or not message"
RejectsNoMessageTest(mdl, message) == ~mdl
Rejects(mdl, message) == ~mdl \/ message = <<>>

\* get_session_history, as the store, the heap and the object it returns
GetSessionHistoryShared(st, hp, id) ==
    [store |-> [x \in (DOMAIN st) \cup {id} |-> 1],
     heap  |-> IF hp = <<>> THEN << <<>> >> ELSE hp,
     ret   |-> 1]
GetSessionHistoryAlwaysNew(st, hp, id) ==
    [store |-> [x \in (DOMAIN st) \cup {id} |->
                   IF x = id THEN Len(hp) + 1 ELSE st[x]],
     heap  |-> Append(hp, <<>>),
     ret   |-> Len(hp) + 1]
GetSessionHistory(st, hp, id) ==
    IF id \notin DOMAIN st
    THEN [store |-> [x \in (DOMAIN st) \cup {id} |->
                        IF x = id THEN Len(hp) + 1 ELSE st[x]],
          heap  |-> Append(hp, <<>>),
          ret   |-> Len(hp) + 1]
    ELSE [store |-> st, heap |-> hp, ret |-> st[id]]

\* a turn of a history; rid is auxiliary: the round that appended it
Turn(role, text, r) == [role |-> role, text |-> text, rid |-> r]

\* the history after the run of round r ended without error:
\* hist.add_messages([HumanMessage(question)] + [AIMessage(output)])
ExitHistoryReplacing(h, r, question, output) ==
    << Turn("user", question, r), Turn("assistant", output, r) >>
ExitHistoryOutputFirst(h, r, question, output) ==
    h \o << Turn("assistant", output, r), Turn("user", question, r) >>
ExitHistoryRendered(h, r, question, output) ==
    h \o << Turn("user", question, r), Turn("assistant", Render(output), r) >>
ExitHistoryUserOnly(h, r, question, output) ==
    h \o << Turn("user", question, r) >>
ExitHistory(h, r, question, output) ==
    h \o << Turn("user", question, r), Turn("assistant", output, r) >>

\* the event of one fragment: the escaped chunk
TokenEventCumulative(full, chunk) == Event("message", Escape(full))
TokenEvent(full, chunk) == Event("message", Escape(chunk))

\* the events after the last fragment: one, named close, with the HTML
FinalEventsEscaped(full) == << Event("close", Render(Escape(full))) >>
FinalEventsSplit(full) ==
    << Event("message", Render(full)), Event("close", <<>>) >>
FinalEvents(full) == << Event("close", Render(full)) >>

\* the event of the first branch of stream_generator
ErrorEvent == Event("message", ErrorDiv)

\* the event of the except branch
ExceptEvent(e) == Event("message", ErrorPrefix \o e)

\* ----------------------------------------------------------------- state
VARIABLES
    model,          \* TRUE iff ChatOpenAI was built (OPENAI_API_KEY set)
    store,          \* store: session id -> history object
    heap,           \* history objects: heap[o] is the messages of object o
    pc,             \* per round: position of the request / generator
    sid,            \* per round: session_id
    msg,            \* per round: message
    hist,           \* per round: the history object of the run (0: none)
    frags,          \* per round: the fragments the provider yielded so far
    full_response,  \* per round: full_response
    events,         \* per round: the events the generator yielded so far
    overlap,        \* per round: it arrived while an earlier round of
                    \* its session was still in flight (auxiliary)
    cookie,         \* per browser: the session_id cookie it holds
    response,       \* per browser: the last GET / exchange: the cookie the
                    \* request carried and the Set-Cookie of the response
    fragment        \* per browser: the last POST /chat response

pageVars == <<cookie, response, fragment>>

vars == <<model, store, heap, pc, sid, msg, hist, frags, full_response,
          events, overlap, cookie, response, fragment>>

\* no exchange yet
NoResponse == [seen |-> FALSE, req |-> NoCookie, set |-> NoCookie]
NoFragment == [seen |-> FALSE, message |-> <<>>, session_id |-> ""]

EndedPcs == {"rejected", "done", "errored"}
Ended(r) == pc[r] \in EndedPcs

\* the generator of round r was cancelled: the client went away
Cancelled(r) == pc[r] = "cancelled"

\* round x is a request for session s whose stream has not ended
InFlight(x, s) ==
    pc[x] # "idle" /\ ~Ended(x) /\ ~Cancelled(x) /\ sid[x] = s

StreamInit ==
    /\ model \in BOOLEAN
    /\ store = [x \in {} |-> 0]
    /\ heap = <<>>
    /\ pc = [r \in Rounds |-> "idle"]
    /\ sid = [r \in Rounds |-> "s1"]
    /\ msg = [r \in Rounds |-> <<>>]
    /\ hist = [r \in Rounds |-> 0]
    /\ frags = [r \in Rounds |-> <<>>]
    /\ full_response = [r \in Rounds |-> <<>>]
    /\ events = [r \in Rounds |-> <<>>]
    /\ overlap = [r \in Rounds |-> FALSE]

\* the state after construction, no browser holding a cookie
Init ==
    /\ StreamInit
    /\ cookie = [c \in Clients |-> NoCookie]
    /\ response = [c \in Clients |-> NoResponse]
    /\ fragment = [c \in Clients |-> NoFragment]

\* the state after construction, the browsers holding what they may
PageInit ==
    /\ StreamInit
    /\ cookie \in [Clients -> InitialJars]
    /\ response = [c \in Clients |-> NoResponse]
    /\ fragment = [c \in Clients |-> NoFragment]

\* --------------------------------------------------------------- actions
\* GET /chat_stream/{s}?message=q: the handler builds the generator.
\* Rounds are numbered in the order of arrival.
ChatStream(r, s, q) ==
    /\ pc[r] = "idle"
    /\ \A x \in Rounds : x < r => pc[x] # "idle"
    /\ sid' = [sid EXCEPT ![r] = s]
    /\ msg' = [msg EXCEPT ![r] = QueryGet(q)]
    /\ overlap' = [overlap EXCEPT ![r] = \E x \in Rounds : InFlight(x, s)]
    /\ UNCHANGED pageVars
    /\ pc' = [pc EXCEPT ![r] = "created"]
    /\ UNCHANGED <<model, store, heap, hist, frags, full_response, events>>

\* stream_generator, first branch: no model or no message
GenReject(r) ==
    /\ pc[r] = "created"
    /\ Rejects(model, msg[r])
    /\ events' = [events EXCEPT ![r] = Append(@, ErrorEvent)]
    /\ UNCHANGED pageVars
    /\ pc' = [pc EXCEPT ![r] = "rejected"]
    /\ UNCHANGED <<model, store, heap, sid, msg, hist, frags, full_response,
                   overlap>>

\* stream_generator enters the try and pulls the stream for the first
\* time: the run starts and fetches the history of the session
OpenStreamSavingQuestion(r) ==
    /\ pc[r] = "created"
    /\ ~Rejects(model, msg[r])
    /\ LET g == GetSessionHistory(store, heap, sid[r]) IN
         /\ store' = g.store
         /\ heap' = [g.heap EXCEPT
                       ![g.ret] = Append(@, Turn("user", msg[r], r))]
         /\ hist' = [hist EXCEPT ![r] = g.ret]
    /\ UNCHANGED pageVars
    /\ pc' = [pc EXCEPT ![r] = "awaiting"]
    /\ UNCHANGED <<model, sid, msg, frags, full_response, events, overlap>>
OpenStream(r) ==
    /\ pc[r] = "created"
    /\ ~Rejects(model, msg[r])
    /\ LET g == GetSessionHistory(store, heap, sid[r]) IN
         /\ store' = g.store
         /\ heap' = g.heap
         /\ hist' = [hist EXCEPT ![r] = g.ret]
    /\ UNCHANGED pageVars
    /\ pc' = [pc EXCEPT ![r] = "awaiting"]
    /\ UNCHANGED <<model, sid, msg, frags, full_response, events, overlap>>

\* one iteration of the async for: the provider yields fragment f
Fragment(r, f) ==
    /\ pc[r] \in {"awaiting", "streaming"}
    /\ Len(frags[r]) < MaxFrags
    /\ f \in NextFragments(frags[r])
    /\ frags' = [frags EXCEPT ![r] = Append(@, f)]
    /\ full_response' = [full_response EXCEPT ![r] = @ \o f]
    /\ events' = [events EXCEPT
                    ![r] = Append(@, TokenEvent(full_response[r] \o f, f))]
    /\ UNCHANGED pageVars
    /\ pc' = [pc EXCEPT ![r] = "streaming"]
    /\ UNCHANGED <<model, store, heap, sid, msg, hist, overlap>>

\* the stream is exhausted: the run ends and saves the two turns, then the
\* generator renders full_response and yields the final event
Exhausted(r) ==
    /\ pc[r] = "streaming"
    /\ heap' = [heap EXCEPT
                  ![hist[r]] = ExitHistory(@, r, msg[r], full_response[r])]
    /\ events' = [events EXCEPT ![r] = @ \o FinalEvents(full_response[r])]
    /\ UNCHANGED pageVars
    /\ pc' = [pc EXCEPT ![r] = "done"]
    /\ UNCHANGED <<model, store, sid, msg, hist, frags, full_response,
                   overlap>>

\* the completion call raises e, before or after fragments: except branch
Raise(r, e) ==
    /\ pc[r] \in {"awaiting", "streaming"}
    /\ events' = [events EXCEPT ![r] = Append(@, ExceptEvent(e))]
    /\ UNCHANGED pageVars
    /\ pc' = [pc EXCEPT ![r] = "errored"]
    /\ UNCHANGED <<model, store, heap, sid, msg, hist, frags, full_response,
                   overlap>>

\* the client disconnects while the generator waits for a fragment or
\* stands at the yield of a Token event: the generator is cancelled, the
\* cancellation is not an Exception, so the except branch does not run and
\* nothing more is yielded; the run ends in error and saves nothing
CancelSavingPartial(r) ==
    /\ pc[r] \in {"awaiting", "streaming"}
    /\ heap' = [heap EXCEPT
                  ![hist[r]] = ExitHistory(@, r, msg[r], full_response[r])]
    /\ UNCHANGED pageVars
    /\ pc' = [pc EXCEPT ![r] = "cancelled"]
    /\ UNCHANGED <<model, store, sid, msg, hist, frags, full_response,
                   events, overlap>>
Cancel(r) ==
    /\ pc[r] \in {"awaiting", "streaming"}
    /\ UNCHANGED pageVars
    /\ pc' = [pc EXCEPT ![r] = "cancelled"]
    /\ UNCHANGED <<model, store, heap, sid, msg, hist, frags, full_response,
                   events, overlap>>

Next ==
    \/ \E r \in Rounds, s \in SessionIds, q \in Queries :
           ChatStream(r, s, q)
    \/ \E r \in Rounds : GenReject(r)
    \/ \E r \in Rounds : OpenStream(r)
    \/ \E r \in Rounds, f \in Fragments : Fragment(r, f)
    \/ \E r \in Rounds : Exhausted(r)
    \/ \E r \in Rounds, e \in ErrTexts : Raise(r, e)
    \/ \E r \in Rounds : Cancel(r)

Spec == Init /\ [][Next]_vars

streamVars == <<model, store, heap, pc, sid, msg, hist, frags,
                full_response, events, overlap>>

\* GET / from browser c; t is the value secrets.token_hex(16) returns if it
\* is called.  The browser keeps the cookie the response sets.
GetIndex(c, t) ==
    LET session_id == cookie[c] IN
        /\ response' = [response EXCEPT
               ![c] = [seen |-> TRUE, req |-> session_id,
                       set |-> IF NoSession(session_id)
                               THEN Cookie(t) ELSE NoCookie]]
        /\ cookie' = [cookie EXCEPT
               ![c] = IF NoSession(session_id) THEN Cookie(t) ELSE @]
        /\ UNCHANGED fragment
        /\ UNCHANGED streamVars

\* POST /chat from browser c with the form field message = m: the fragment
\* names the session of the cookie, or "default"; nothing is saved
Chat(c, m) ==
    LET session_id == IF NoSession(cookie[c]) THEN DefaultSession
                      ELSE cookie[c].value IN
        /\ fragment' = [fragment EXCEPT
               ![c] = [seen |-> TRUE, message |-> m,
                       session_id |-> session_id]]
        /\ UNCHANGED <<cookie, response>>
        /\ UNCHANGED streamVars

PageNext ==
    \/ \E c \in Clients, t \in Tokens : GetIndex(c, t)
    \/ \E c \in Clients, m \in Messages \ {<<>>} : Chat(c, m)

PageSpec == PageInit /\ [][PageNext]_vars

TypeOK ==
    /\ model \in BOOLEAN
    /\ DOMAIN store \subseteq SessionIds
    /\ \A s \in DOMAIN store : store[s] \in 1..Len(heap)
    /\ \A r \in Rounds : pc[r] \in {"idle", "created", "awaiting",
                                    "streaming", "cancelled"} \cup EndedPcs
    /\ \A r \in Rounds : hist[r] \in 0..Len(heap)
\* ------------------------------------------------------ claim vocabulary
IsToken(e) == e.name = "message"
IsClose(e) == e.name = "close"

\* the history stored under session id s (empty when there is none)
HistoryOf(s) == IF s \in DOMAIN store THEN heap[store[s]] ELSE <<>>

UserTurns(h) == Cardinality({i \in 1..Len(h) : h[i].role = "user"})
AssistantTurns(h) == Cardinality({i \in 1..Len(h) : h[i].role = "assistant"})

\* rounds of session s that ended in success / in the error path (a round
\* with an empty message is a rejected request, not an errored round)
SuccRounds(s) == {r \in Rounds : sid[r] = s /\ pc[r] = "done"}
ErrRounds(s) == {r \in Rounds : /\ sid[r] = s
                                /\ pc[r] \in {"errored", "rejected"}
                                /\ msg[r] # <<>>}

\* no round is in flight
Quiescent == \A r \in Rounds : pc[r] = "idle" \/ Ended(r) \/ Cancelled(r)

\* the rounds of session s ran one after another: each arrived after the
\* earlier rounds of s had ended
Sequential(s) == \A r \in Rounds : sid[r] = s => ~overlap[r]

\* the k-th successful round of session s, in round order
KthSucc(s, k) ==
    CHOOSE r \in SuccRounds(s) :
        Cardinality({x \in SuccRounds(s) : x <= r}) = k

\* C1 (as claimed): every stream that has ended, whatever its outcome,
\* has exactly one Close event and that event is its last event.
C1_EveryStreamEndsWithOneClose ==
    \A r \in Rounds : Ended(r) =>
        /\ Len(events[r]) >= 1
        /\ IsClose(events[r][Len(events[r])])
        /\ Cardinality({i \in 1..Len(events[r]) : IsClose(events[r][i])}) = 1

\* C2 (as claimed): a successful round's stream is one Token per fragment,
\* then a Replace event carrying the rendered HTML, then a separate Close
\* event.
C2_ReplaceThenSeparateClose ==
    \A r \in Rounds : pc[r] = "done" =>
        LET ev == events[r]
            n  == Len(frags[r])
        IN  /\ Len(ev) = n + 2
            /\ \A i \in 1..n : IsToken(ev[i])
            /\ ev[n + 1].data = Render(Concat(frags[r]))
            /\ IsClose(ev[n + 2])

\* C2 (amended): a successful round's stream is one Token event per
\* fragment, then exactly one terminal event, named close, whose payload
\* is the rendered HTML; nothing else, and no Token after it.
C2_TokensThenOneCloseWithHtml ==
    \A r \in Rounds : pc[r] = "done" =>
        LET ev == events[r]
            n  == Len(frags[r])
        IN  /\ Len(ev) = n + 1
            /\ \A i \in 1..n : IsToken(ev[i])
            /\ IsClose(ev[n + 1])
            /\ ev[n + 1].data = Render(Concat(frags[r]))

C2_Witness ==
    \E r \in Rounds : pc[r] = "done" /\ Len(frags[r]) = MaxFrags

\* C3 (as claimed): when the completion call raises, the Token events
\* already emitted stay and the stream continues with exactly one
\* error-carrying Replace event followed by exactly one Close event.
C3_ErrorReplaceThenClose ==
    \A r \in Rounds : pc[r] = "errored" =>
        LET ev == events[r]
            n  == Len(frags[r])
        IN  /\ Len(ev) = n + 2
            /\ \A i \in 1..n : IsToken(ev[i])
            /\ ~IsClose(ev[n + 1])
            /\ IsClose(ev[n + 2])

\* C4 (as claimed): in a successful round the payload of the k-th Token
\* event is the escaped concatenation of the fragments 1..k.
C4_TokenPayloadCumulative ==
    \A r \in Rounds : pc[r] = "done" =>
        \A k \in 1..Len(frags[r]) :
            events[r][k].data = Escape(Concat(SubSeq(frags[r], 1, k)))

\* C4 (amended): in a successful round the payload of the k-th Token
\* event is the escaped k-th fragment alone (the delta).
C4_TokenPayloadDelta ==
    \A r \in Rounds : pc[r] = "done" =>
        \A k \in 1..Len(frags[r]) :
            /\ IsToken(events[r][k])
            /\ events[r][k].data = Escape(frags[r][k])

C4_Witness ==
    \E r \in Rounds :
        /\ pc[r] = "done"
        /\ Len(frags[r]) = 2
        /\ frags[r][1] # <<>>
        /\ Escape(frags[r][2]) # frags[r][2]

\* C5 (as claimed): after rounds run one after another, a session's
\* history has one user turn per successful or errored round and one
\* assistant turn per successful round.
C5_ErroredRoundKeepsUserTurn ==
    Quiescent =>
        \A s \in SessionIds : Sequential(s) =>
            /\ UserTurns(HistoryOf(s)) =
                   Cardinality(SuccRounds(s)) + Cardinality(ErrRounds(s))
            /\ AssistantTurns(HistoryOf(s)) = Cardinality(SuccRounds(s))

\* C5 (amended): after rounds run one after another, a session's history
\* is, in round order, one user turn directly followed by one assistant
\* turn for each successful round, and nothing for an errored round.
C5_OnlySuccessfulRoundsInHistory ==
    Quiescent =>
        \A s \in SessionIds : Sequential(s) =>
            LET h == HistoryOf(s)
                n == Cardinality(SuccRounds(s))
            IN  /\ Len(h) = 2 * n
                /\ UserTurns(h) = n
                /\ AssistantTurns(h) = n
                /\ \A k \in 1..n :
                       /\ h[2 * k - 1].role = "user"
                       /\ h[2 * k - 1].rid = KthSucc(s, k)
                       /\ h[2 * k].role = "assistant"
                       /\ h[2 * k].rid = KthSucc(s, k)

C5_Witness ==
    /\ Quiescent
    /\ \E s \in SessionIds :
           /\ Sequential(s)
           /\ \E r \in SuccRounds(s) : TRUE
           /\ \E r \in ErrRounds(s) : pc[r] = "errored"
           /\ Len(HistoryOf(s)) = 2

\* C6: the step that ends a successful round appends to the round's
\* history exactly (user, message) then (assistant, f1+...+fn), the
\* assistant text being the plain concatenation of the fragments.
C6_SuccessAppendsUserThenPlainAssistant ==
    [][\A r \in Rounds :
          (pc[r] = "streaming" /\ pc'[r] = "done") =>
              /\ hist[r] = store[sid[r]]
              /\ heap'[hist[r]] = heap[hist[r]] \o
                     << Turn("user", msg[r], r),
                        Turn("assistant", Concat(frags[r]), r) >>
              /\ \A o \in 1..Len(heap) : o # hist[r] => heap'[o] = heap[o]]_vars

C6_Witness ==
    \E r \in Rounds :
        /\ pc[r] = "done"
        /\ Len(frags[r]) = 2
        /\ Escape(full_response[r]) # full_response[r]
        /\ \E i \in 1..Len(HistoryOf(sid[r])) :
               HistoryOf(sid[r])[i] = Turn("assistant", full_response[r], r)

\* C7 (as claimed): without a model, a round with a non-empty message
\* ends with a stream of exactly one Replace event then one Close event,
\* and the session's history holds the user turn of that round.
C7_NoModelReplaceCloseAndUserTurn ==
    \A r \in Rounds : (~model /\ msg[r] # <<>> /\ Ended(r)) =>
        /\ Len(events[r]) = 2
        /\ events[r][1].data = ErrorDiv
        /\ IsClose(events[r][2])
        /\ HistoryOf(sid[r]) = << Turn("user", msg[r], r) >>

\* C8 (as claimed): a stream request with an empty or missing message
\* emits no event, creates no session and changes no history.
C8_EmptyMessageEmitsNothing ==
    \A r \in Rounds : (pc[r] # "idle" /\ msg[r] = <<>>) =>
        /\ events[r] = <<>>
        /\ hist[r] = 0

\* C8 (amended): a stream request with an empty or missing message leaves
\* the session store and every history as they are, and its stream is
\* exactly one event, the fixed error event.
C8_EmptyMessageOneErrorEventStoreUntouched ==
    [][\A r \in Rounds :
          (msg[r] = <<>> /\ pc[r] = "created" /\ pc'[r] # pc[r]) =>
              /\ store' = store
              /\ heap' = heap
              /\ hist'[r] = 0
              /\ pc'[r] = "rejected"
              /\ events'[r] = << ErrorEvent >>]_vars

C8_Witness ==
    \E r \in Rounds :
        /\ model
        /\ pc[r] = "rejected"
        /\ msg[r] = <<>>
        /\ sid[r] \notin DOMAIN store

\* C9: a call of get_session_history with an unseen id inserts one new
\* empty history and returns it; a call with a known id returns the
\* stored object and changes neither the store nor any history; so every
\* run holds the very object the store has under its session id.
C9_GetSessionHistoryIdempotent ==
    [][/\ \A r \in Rounds :
            (pc[r] = "created" /\ pc'[r] = "awaiting") =>
                IF sid[r] \in DOMAIN store
                THEN /\ store' = store
                     /\ heap' = heap
                     /\ hist'[r] = store[sid[r]]
                ELSE /\ DOMAIN store' = DOMAIN store \cup {sid[r]}
                     /\ \A x \in DOMAIN store : store'[x] = store[x]
                     /\ Len(heap') = Len(heap) + 1
                     /\ \A o \in 1..Len(heap) : heap'[o] = heap[o]
                     /\ store'[sid[r]] = Len(heap')
                     /\ heap'[Len(heap')] = <<>>
                     /\ hist'[r] = store'[sid[r]]
       /\ \A r \in Rounds :
            hist'[r] # 0 =>
                (sid'[r] \in DOMAIN store' /\ hist'[r] = store'[sid'[r]])]_vars

C9_Witness ==
    \E r1, r2 \in Rounds :
        /\ r1 < r2
        /\ sid[r1] = sid[r2]
        /\ pc[r1] = "done"
        /\ hist[r2] = hist[r1]
        /\ hist[r2] # 0
        /\ heap[hist[r2]] # <<>>

\* C10: in every state every stored history is a sequence of whole
\* rounds: a user turn directly followed by the assistant turn of the
\* same round, also when rounds of one session are in flight together.
C10_HistoryIsWholeRounds ==
    \A s \in DOMAIN store :
        LET h == heap[store[s]] IN
            /\ Len(h) % 2 = 0
            /\ \A k \in 1..(Len(h) \div 2) :
                   /\ h[2 * k - 1].role = "user"
                   /\ h[2 * k].role = "assistant"
                   /\ h[2 * k].rid = h[2 * k - 1].rid

\* two rounds of one session overlapped, and the later one ended first
C10_Witness ==
    \E r1, r2 \in Rounds :
        /\ r1 < r2
        /\ sid[r1] = sid[r2]
        /\ overlap[r2]
        /\ pc[r1] = "done"
        /\ pc[r2] = "done"
        /\ Len(HistoryOf(sid[r1])) = 4
        /\ HistoryOf(sid[r1])[1].rid = r2
\* turns that round r appended, in any history object
TurnsOf(r) ==
    {<<o, i>> \in (1..Len(heap)) \X (1..(2 * MaxRounds)) :
        i <= Len(heap[o]) /\ heap[o][i].rid = r}

\* C11: the step that cancels a streaming round changes no history, and a
\* cancelled round has appended nothing: no turn of any history is its.
C11_CancelledRoundAppendsNothing ==
    [][\A r \in Rounds :
          /\ (pc[r] \in {"awaiting", "streaming"} /\ pc'[r] = "cancelled") =>
                 (heap' = heap /\ store' = store)
          /\ pc'[r] = "cancelled" => TurnsOf(r)' = {}]_vars

C11_Witness ==
    \E r1, r2 \in Rounds :
        /\ r1 < r2
        /\ sid[r1] = sid[r2]
        /\ pc[r1] = "done"
        /\ pc[r2] = "cancelled"
        /\ Len(frags[r2]) = MaxFrags
        /\ Len(HistoryOf(sid[r2])) = 2
\* the number of positions of text t that hold c
Count(t, c) == Cardinality({i \in 1..Len(t) : t[i] = c})

\* C12 (as claimed): every event on the wire is "event: <name>", a newline,
\* "data: <payload>" and two newlines, the payload holding no raw newline:
\* the three newlines of the frame are the only ones.
C12_NoRawNewlineInPayload ==
    \A r \in Rounds : \A i \in 1..Len(events[r]) :
        /\ Count(events[r][i].data, "\n") = 0
        /\ Count(Wire(events[r][i]), "\n") = 3
\* C13 (as claimed): no event named message, on any path that emits one,
\* carries a raw '<' or '>' in its payload.
C13_NoRawAngleBracketInToken ==
    \A r \in Rounds : \A i \in 1..Len(events[r]) :
        IsToken(events[r][i]) =>
            /\ Count(events[r][i].data, "<") = 0
            /\ Count(events[r][i].data, ">") = 0
\* C14: in a successful round the payload of the event that carries the
\* replacement is the renderer applied once to the plain concatenation of
\* the round's fragments, not to its escaped form, and that text is the
\* buffer full_response the fragments were gathered in.
C14_ReplacePayloadIsRenderedPlainBuffer ==
    \A r \in Rounds : pc[r] = "done" =>
        LET last == events[r][Len(events[r])]
            text == Concat(frags[r])
        IN  /\ full_response[r] = text
            /\ last.data = Render(text)
            /\ Escape(text) # text => last.data # Render(Escape(text))
            /\ last.data # Render(Render(text))

C14_Witness ==
    \E r \in Rounds :
        /\ pc[r] = "done"
        /\ Len(frags[r]) = 2
        /\ Count(full_response[r], "<") > 0
        /\ Count(events[r][Len(events[r])].data, "&") = 0
\* C15 (as claimed): the response to GET / sets a session_id cookie exactly
\* when the request carried no session_id cookie.
C15_SetCookieIffNoCookieCarried ==
    \A c \in Clients : response[c].seen =>
        (response[c].set.present <=> ~response[c].req.present)

\* C15 (amended): the response to GET / sets a session_id cookie, to a
\* token, exactly when the request carried no session_id cookie or an
\* empty one; a non-empty session id a browser holds is never replaced.
C15_SetCookieIffNoSessionId ==
    [][\A c \in Clients :
          /\ response'[c].seen =>
                 /\ response'[c].set.present <=>
                        (~response'[c].req.present \/ response'[c].req.value = "")
                 /\ response'[c].set.present => response'[c].set.value \in Tokens
          /\ (cookie[c].present /\ cookie[c].value # "") =>
                 cookie'[c] = cookie[c]]_vars

C15_Witness ==
    \E c1, c2 \in Clients :
        /\ response[c1].seen /\ response[c1].req = Cookie("")
        /\ response[c1].set.present
        /\ response[c2].seen /\ response[c2].req.present
        /\ response[c2].req.value \in Tokens
        /\ ~response[c2].set.present
        /\ cookie[c2] = response[c2].req
\* the history of round r's session holds the user turn of round r
HasUserTurn(r) ==
    \E i \in 1..Len(HistoryOf(sid[r])) :
        HistoryOf(sid[r])[i] = Turn("user", msg[r], r)

\* C16 (as claimed): in any state where a Token event of a round with a
\* non-empty message has been emitted, the history of its session already
\* holds the user turn of that round.
C16_UserTurnSavedBeforeFirstToken ==
    \A r \in Rounds :
        (msg[r] # <<>> /\ Len(frags[r]) >= 1 /\ IsToken(events[r][1])) =>
            HasUserTurn(r)

\* C16 (amended): the user turn of a round is not saved when the
\* completion call is opened nor when Token events are emitted; the history
\* holds it exactly when the round has ended in success.
C16_UserTurnSavedOnlyAtSuccess ==
    \A r \in Rounds :
        (pc[r] # "idle" /\ msg[r] # <<>>) =>
            (HasUserTurn(r) <=> pc[r] = "done")

C16_Witness ==
    \E r \in Rounds :
        /\ pc[r] = "streaming"
        /\ Len(frags[r]) = MaxFrags
        /\ \A i \in 1..Len(events[r]) : IsToken(events[r][i])
        /\ sid[r] \in DOMAIN store
        /\ ~HasUserTurn(r)
\* a is an initial part of b
IsPrefix(a, b) == Len(a) <= Len(b) /\ SubSeq(b, 1, Len(a)) = a

\* C17: no step removes a session id from the store, and the history a
\* session id had before a step is an initial part of the history it has
\* after it; hence the same between any earlier and any later state.
C17_StoreGrowsHistoriesAppendOnly ==
    [][\A id \in DOMAIN store :
          /\ id \in DOMAIN store'
          /\ IsPrefix(heap[store[id]], heap'[store'[id]])]_vars

C17_Witness ==
    /\ \E id \in DOMAIN store : Len(heap[store[id]]) = 4
    /\ \E r \in Rounds : pc[r] = "done" /\ heap[hist[r]][3].rid = r

\* C18: a step of a round of session A leaves alone, for every other
\* session id B, whether the store has B, which object it has for B and
\* that object's history; and the history object the round works on is the
\* one stored under A.
C18_RoundTouchesOnlyItsSession ==
    [][\A r \in Rounds :
          (pc'[r] # pc[r] \/ frags'[r] # frags[r]) =>
              /\ \A b \in SessionIds \ {sid'[r]} :
                     /\ b \in DOMAIN store <=> b \in DOMAIN store'
                     /\ b \in DOMAIN store =>
                            /\ store'[b] = store[b]
                            /\ heap'[store'[b]] = heap[store[b]]
              /\ hist'[r] # 0 => hist'[r] = store'[sid'[r]]]_vars

\* two rounds of different sessions overlapped: the later one has ended
\* and saved its turns while the earlier one is still streaming
C18_Witness ==
    \E r1, r2 \in Rounds :
        /\ r1 < r2
        /\ sid[r1] # sid[r2]
        /\ pc[r1] = "streaming"
        /\ pc[r2] = "done"
        /\ HistoryOf(sid[r1]) = <<>>
        /\ sid[r1] \in DOMAIN store
        /\ Len(HistoryOf(sid[r2])) = 2
====
